---- MODULE Spec2Model ----
(***************************************************************************)
(* Model of the GPG key endpoints of the Vault GPG plugin                  *)
(* (src/gpg/path_keys.go): the handlers pathKeyCreate, pathKeyRead,         *)
(* pathKeyDelete and pathKeyList over the logical.Storage collaborator,     *)
(* and the helpers key, entity and serializePrivateWithoutSigning.          *)
(*                                                                          *)
(* OpenPGP data is modelled at the level of packets: a byte string is a    *)
(* sequence of packets, an armored text is a block type and a packet       *)
(* sequence.  The calls into golang.org/x/crypto/openpgp are modelled by   *)
(* what they do to packet sequences (ReadKeyRing parses, Serialize writes). *)
(***************************************************************************)
EXTENDS Integers, Sequences, FiniteSets, TLC

VARIABLES
    store,   \* logical.Storage: storage key -> storage entry, or Absent
    req,     \* the request being handled (framework.FieldData and operation)
    resp,    \* what the handler returned: (*logical.Response, error) or a panic
    buf,     \* pathKeyCreate's local bytes.Buffer (line 193) when the handler ended
    had,     \* history: the request's name had an entry when the handler began
    live,    \* history: names whose last successful create was not followed by a successful delete
    procs,   \* concurrent requests: per request slot, its position and its local variables
    built    \* history: the storage entries built by create calls that reached Storage.Put

vars == <<store, req, resp, buf, had, live, procs, built>>

----------------------------------------------------------------------------
(* Bounds of the model. *)

\* user ids an imported key ring may carry
MaxIdents == 2
\* subkeys an imported key ring may carry
MaxSubkeys == 2
\* distinct signature values an identity's self-signature may have
MaxSig == 2
\* distinct key pairs the generator may produce
MaxGenKeys == 1
\* requests in flight at the same time
MaxProcs == 2

----------------------------------------------------------------------------
(* Packets.  Every packet is a record of the same shape:                   *)
(*   tag    "PublicKey" | "PrivateKey" | "UserId" | "Signature"            *)
(*   id     key id, user id, or the signature's value                      *)
(*   sub    key packets: IsSubkey                                          *)
(*   enc    private key packets: the secret part is passphrase-encrypted   *)
(*   type   signatures: "cert" (SigTypePositiveCert) | "binding"           *)
(*   signer signatures: IssuerKeyId                                        *)
(*   over   signatures: the user id or subkey the signature is made over   *)

Packet(tag, id, sub, enc, type, signer, over) ==
    [tag |-> tag, id |-> id, sub |-> sub, enc |-> enc, type |-> type,
     signer |-> signer, over |-> over]

PublicKeyPacket(id, sub) == Packet("PublicKey", id, sub, FALSE, "", 0, 0)
PrivateKeyPacket(id, sub, enc) == Packet("PrivateKey", id, sub, enc, "", 0, 0)
UserIdPacket(id) == Packet("UserId", id, FALSE, FALSE, "", 0, 0)
SignaturePacket(id, type, signer, over) ==
    Packet("Signature", id, FALSE, FALSE, type, signer, over)

\* a private key held in memory: absent, usable, or still encrypted
NoPrivateKey == "none"
ClearPrivateKey == "clear"
EncryptedPrivateKey == "encrypted"

PrivateKeyStates == {NoPrivateKey, ClearPrivateKey, EncryptedPrivateKey}

\* the packet of an in-memory private key (packet.PrivateKey embeds PublicKey)
PrivateKeyOf(id, sub, state) == PrivateKeyPacket(id, sub, state = EncryptedPrivateKey)

EmptyIdentities == [u \in {} |-> 0]

----------------------------------------------------------------------------
(* openpgp.Entity in memory:                                               *)
(*   PrimaryKey  key id of the primary public key                          *)
(*   PrivateKey  NoPrivateKey (nil) | ClearPrivateKey | EncryptedPrivateKey *)
(*   Identities  map user id -> [SelfSignature, Signatures]                *)
(*   Subkeys     sequence of [PublicKey, PrivateKey, Sig]                  *)

\* a nil *packet.Signature
NoSig == SignaturePacket(0, "", 0, 0)

NewIdentity == [SelfSignature |-> NoSig, Signatures |-> <<>>]

IsKeyPacket(p) == p.tag \in {"PublicKey", "PrivateKey"}

KeyState(p) ==
    IF p.tag = "PrivateKey"
    THEN (IF p.enc THEN EncryptedPrivateKey ELSE ClearPrivateKey)
    ELSE NoPrivateKey

\* openpgp.addUserID: the signatures that follow a user id packet.  A        
\* certification issued by the primary key must verify over this user id and
\* becomes the self-signature (which registers the identity); any other      
\* signature is kept in identity.Signatures.                                 
RECURSIVE addUserID(_, _, _, _, _)
addUserID(e, ps, uid, identity, registered) ==
    IF ps = <<>> \/ Head(ps).tag # "Signature"
    THEN [e |-> IF registered
                THEN [e EXCEPT !.Identities = (uid :> identity) @@ e.Identities]
                ELSE e,
          err |-> "",
          rest |-> ps]
    ELSE LET sig == Head(ps) IN
         IF sig.type = "cert" /\ sig.signer = e.PrimaryKey
         THEN IF sig.over # uid
              THEN [e |-> e, err |-> "user ID self-signature invalid", rest |-> Tail(ps)]
              ELSE addUserID(e, Tail(ps), uid,
                             [identity EXCEPT !.SelfSignature = sig], TRUE)
         ELSE addUserID(e, Tail(ps), uid,
                        [identity EXCEPT !.Signatures = Append(@, sig)], registered)

\* openpgp.addSubkey: the signatures that follow a subkey packet.  Each must 
\* be a binding signature by the primary key over this subkey; the subkey is 
\* added only if one was found.                                              
RECURSIVE addSubkey(_, _, _)
addSubkey(e, ps, subKey) ==
    IF ps = <<>> \/ Head(ps).tag # "Signature"
    THEN IF subKey.Sig = NoSig
         THEN [e |-> e, err |-> "subkey packet not followed by signature", rest |-> ps]
         ELSE [e |-> [e EXCEPT !.Subkeys = Append(@, subKey)], err |-> "", rest |-> ps]
    ELSE LET sig == Head(ps) IN
         IF sig.type # "binding"
         THEN [e |-> e, err |-> "subkey signature with wrong type", rest |-> Tail(ps)]
         ELSE IF sig.signer # e.PrimaryKey \/ sig.over # subKey.PublicKey
         THEN [e |-> e, err |-> "subkey signature invalid", rest |-> Tail(ps)]
         ELSE addSubkey(e, Tail(ps),
                        IF subKey.Sig = NoSig THEN [subKey EXCEPT !.Sig = sig] ELSE subKey)

\* The packet loop of openpgp.ReadEntity after the primary key: a user id   
\* starts an identity, a subkey packet a subkey, a primary key packet the     
\* next entity (it is unread), and a signature that follows nothing it could  
\* attach to is ignored.                                                      
RECURSIVE EachPacket(_, _)
AfterPacket(r) == IF r.err # "" THEN r ELSE EachPacket(r.e, r.rest)
EachPacket(e, ps) ==
    IF ps = <<>> THEN [e |-> e, err |-> "", rest |-> ps]
    ELSE IF Head(ps).tag = "UserId"
    THEN AfterPacket(addUserID(e, Tail(ps), Head(ps).id, NewIdentity, FALSE))
    ELSE IF Head(ps).tag = "Signature" \/ Head(ps).sub
    THEN AfterPacket(IF Head(ps).tag = "Signature"
                     THEN [e |-> e, err |-> "", rest |-> Tail(ps)]
                     ELSE addSubkey(e, Tail(ps),
                                    [Sig |-> NoSig, PublicKey |-> Head(ps).id,
                                     PrivateKey |-> KeyState(Head(ps))]))
    ELSE [e |-> e, err |-> "", rest |-> ps]

\* the end of openpgp.ReadEntity: an entity needs an identity
CheckEntity(r) ==
    IF r.err # "" THEN [e |-> <<>>, err |-> r.err, rest |-> r.rest]
    ELSE IF DOMAIN r.e.Identities = {}
    THEN [e |-> <<>>, err |-> "entity without any identities", rest |-> r.rest]
    ELSE r

\* openpgp.ReadEntity: one entity from the head of a packet sequence.       
ReadEntity(ps) ==
    IF ps = <<>> THEN [e |-> <<>>, err |-> "EOF", rest |-> ps]
    ELSE IF ~IsKeyPacket(Head(ps))
    THEN [e |-> <<>>, err |-> "first packet was not a public/private key", rest |-> ps]
    ELSE CheckEntity(EachPacket([Identities |-> EmptyIdentities,
                                 PrimaryKey |-> Head(ps).id, Subkeys |-> <<>>,
                                 PrivateKey |-> KeyState(Head(ps))],
                                Tail(ps)))

\* openpgp.readToNextPublicKey: skip to the next primary public key packet. 
RECURSIVE readToNextPublicKey(_)
readToNextPublicKey(ps) ==
    IF ps = <<>> THEN ps
    ELSE IF Head(ps).tag = "PublicKey" /\ ~Head(ps).sub THEN ps
    ELSE readToNextPublicKey(Tail(ps))

\* openpgp.ReadKeyRing: every entity of a packet sequence.  An unreadable    
\* entity is skipped; the last such error is returned only when no entity    
\* was read.  An empty sequence gives an empty list and no error.            
\* r: what ReadEntity returned.                                               
RECURSIVE ReadKeyRingStep(_, _, _)
ReadKeyRingFrom(ps, el, lastUnsupportedError) ==
    ReadKeyRingStep(ReadEntity(ps), el, lastUnsupportedError)
ReadKeyRingStep(r, el, lastUnsupportedError) ==
    IF r.err = "" THEN ReadKeyRingFrom(r.rest, Append(el, r.e), lastUnsupportedError)
    ELSE IF r.err = "EOF"
    THEN [err |-> IF el = <<>> THEN lastUnsupportedError ELSE "", el |-> el]
    ELSE IF readToNextPublicKey(r.rest) = <<>>
    THEN [err |-> IF el = <<>> THEN r.err ELSE "", el |-> el]
    ELSE ReadKeyRingFrom(readToNextPublicKey(r.rest), el, r.err)

ReadKeyRing(ps) == ReadKeyRingFrom(ps, <<>>, "")

\* An armored text: nothing ("empty"), text with no armor block ("garbage"),
\* or an armor block of some type around a packet sequence.                 
PublicKeyType == "PGP PUBLIC KEY BLOCK"
PrivateKeyType == "PGP PRIVATE KEY BLOCK"

EmptyText == [type |-> "", kind |-> "empty", body |-> <<>>]
GarbageText == [type |-> "", kind |-> "garbage", body |-> <<>>]
Armor(type, body) == [type |-> type, kind |-> "armor", body |-> body]

\* openpgp.ReadArmoredKeyRing                                               
ReadArmoredKeyRing(text) ==
    IF text.kind # "armor" THEN [err |-> "no armored data found", el |-> <<>>]
    ELSE IF text.type \notin {PublicKeyType, PrivateKeyType}
    THEN [err |-> "expected public or private key block", el |-> <<>>]
    ELSE ReadKeyRing(text.body)

----------------------------------------------------------------------------
(* Serialization.                                                          *)

\* packet.PrivateKey.Serialize writes only a decrypted key: for a key whose  
\* secret part is still encrypted it returns an error and writes nothing.    
\* UserId.Serialize and Signature.Serialize of parsed packets always write.  
SerializeFails(p) == p.tag = "PrivateKey" /\ p.enc

\* The Serialize calls one after the other into the buffer, stopping at the  
\* first that returns an error.                                              
RECURSIVE WriteEach(_, _)
WriteEach(ps, w) ==
    IF ps = <<>> THEN [buf |-> w, failed |-> FALSE]
    ELSE IF SerializeFails(Head(ps)) THEN [buf |-> w, failed |-> TRUE]
    ELSE WriteEach(Tail(ps), Append(w, Head(ps)))

\* every order in which a Go map with key set S may be ranged over
RECURSIVE Orders(_)
Orders(S) ==
    IF S = {} THEN {<<>>}
    ELSE UNION {{<<u>> \o o : o \in Orders(S \ {u})} : u \in S}

\* the loop over e.Identities (lines 122-131), in iteration order `order`
\* variant: each identity is written with a self-signature made anew
RECURSIVE IdentityPacketsResigned(_, _)
IdentityPacketsResigned(e, order) ==
    IF order = <<>> THEN <<>>
    ELSE <<UserIdPacket(Head(order)), SignaturePacket(0, "cert", e.PrimaryKey, Head(order))>>
         \o IdentityPacketsResigned(e, Tail(order))

RECURSIVE IdentityPackets(_, _)
IdentityPackets(e, order) ==
    IF order = <<>> THEN <<>>
    ELSE <<UserIdPacket(Head(order)), e.Identities[Head(order)].SelfSignature>>
         \o IdentityPackets(e, Tail(order))

\* the loop over e.Subkeys (lines 132-144)
RECURSIVE SubkeyPackets(_)
SubkeyPackets(subkeys) ==
    IF subkeys = <<>> THEN <<>>
    ELSE (IF Head(subkeys).PrivateKey # NoPrivateKey
          THEN <<PrivateKeyOf(Head(subkeys).PublicKey, TRUE, Head(subkeys).PrivateKey)>>
          ELSE <<>>)
         \o <<Head(subkeys).Sig>> \o SubkeyPackets(Tail(subkeys))

\* lines 115-121
PrimaryPackets(e) ==
    IF e.PrivateKey # NoPrivateKey
    THEN <<PrivateKeyOf(e.PrimaryKey, FALSE, e.PrivateKey)>>
    ELSE <<>>

\* the value of foundPrivateKey at line 146
\* variant: only the primary key counts as private material
FoundPrimaryPrivateKey(e) == e.PrivateKey # NoPrivateKey

FoundPrivateKey(e) ==
    \/ e.PrivateKey # NoPrivateKey
    \/ \E i \in 1..Len(e.Subkeys) : e.Subkeys[i].PrivateKey # NoPrivateKey

\* lines 146-150: the error returned once the Serialize calls are through
SerializeOutcome(e, w) ==
    [buf |-> w.buf,
     err |-> IF w.failed THEN "unknown private key type"
             ELSE IF ~FoundPrivateKey(e) THEN "No private key has been found"
             ELSE ""]

\* serializePrivateWithoutSigning(w, e): what was written to w, and the error
serializePrivateWithoutSigning(e, order) ==
    SerializeOutcome(e, WriteEach(PrimaryPackets(e) \o IdentityPackets(e, order)
                                  \o SubkeyPackets(e.Subkeys), <<>>))

\* openpgp.Entity.Serialize: the public parts only
RECURSIVE PublicIdentityPackets(_, _)
PublicIdentityPackets(e, order) ==
    IF order = <<>> THEN <<>>
    ELSE <<UserIdPacket(Head(order)), e.Identities[Head(order)].SelfSignature>>
         \o e.Identities[Head(order)].Signatures
         \o PublicIdentityPackets(e, Tail(order))

RECURSIVE PublicSubkeyPackets(_)
PublicSubkeyPackets(subkeys) ==
    IF subkeys = <<>> THEN <<>>
    ELSE <<PublicKeyPacket(Head(subkeys).PublicKey, TRUE), Head(subkeys).Sig>>
         \o PublicSubkeyPackets(Tail(subkeys))

EntitySerialize(e, order) ==
    <<PublicKeyPacket(e.PrimaryKey, FALSE)>> \o PublicIdentityPackets(e, order)
    \o PublicSubkeyPackets(e.Subkeys)

----------------------------------------------------------------------------
(* Key generation.                                                         *)

\* the characters packet.NewUserId refuses in a name, comment or email
ForbiddenChars == {"(", ")", "<", ">", "NUL"}

HasForbidden(s) == \E i \in 1..Len(s) : s[i] \in ForbiddenChars

\* the user id of a generated identity: one id per (name, comment, email)
CharCode(c) == CASE c = "a" -> 1 [] c = "b" -> 2 [] OTHER -> 3
RECURSIVE StrCode(_)
StrCode(s) == IF s = <<>> THEN 0 ELSE CharCode(Head(s)) + 4 * StrCode(Tail(s))
GenUserId(name, comment, email) ==
    1000 + StrCode(name) + 100 * StrCode(comment) + 10000 * StrCode(email)

\* openpgp.NewEntity(name, comment, email, config): a fresh signing key      
\* `k` with one self-signed identity and one encryption subkey; an error if  
\* a field of the identity holds a forbidden character.                      
GeneratedEntity(uid, k) ==
    [Identities |-> (uid :> [SelfSignature |-> SignaturePacket(1, "cert", k, uid),
                             Signatures |-> <<>>]),
     PrimaryKey |-> k,
     Subkeys |-> <<[Sig |-> SignaturePacket(1, "binding", k, k + 1),
                    PublicKey |-> k + 1, PrivateKey |-> ClearPrivateKey]>>,
     PrivateKey |-> ClearPrivateKey]

NewEntity(name, comment, email, k) ==
    IF HasForbidden(name) \/ HasForbidden(comment) \/ HasForbidden(email)
    THEN [e |-> <<>>, err |-> "user id field contained invalid characters"]
    ELSE [e |-> GeneratedEntity(GenUserId(name, comment, email), k), err |-> ""]

\* openpgp.Entity.SerializePrivate: signs and writes a generated entity
SerializePrivate(e, order) ==
    <<PrivateKeyOf(e.PrimaryKey, FALSE, e.PrivateKey)>> \o IdentityPackets(e, order)
    \o SubkeyPackets(e.Subkeys)

----------------------------------------------------------------------------
(* The storage collaborator (logical.Storage) and the stored record.       *)

Names == {"a", "b"}

\* the order in which Storage.List returns names
NameOrder == <<"a", "b">>

\* "key/"+name
StorageKey(name) == "key/" \o name

StorageKeys == {StorageKey(n) : n \in Names}

\* no entry under a storage key (Storage.Get returns nil)
Absent == [absent |-> TRUE]

\* type keyEntry struct (lines 254-257)
keyEntry(SerializedKey, Exportable) ==
    [SerializedKey |-> SerializedKey, Exportable |-> Exportable]

\* logical.StorageEntryJSON(k, v): the entry whose value is v's JSON encoding
StorageEntryJSON(k, v) == [Key |-> k, Value |-> [json |-> v]]

\* (*StorageEntry).DecodeJSON
DecodeJSON(value) == value.json

StoragePut(s, entry) == [s EXCEPT ![entry.Key] = entry.Value]
StorageGet(s, k) == s[k]
StorageDelete(s, k) == [s EXCEPT ![k] = Absent]

\* Storage.List("key/"): the names stored under the prefix, in order
RECURSIVE ListFrom(_, _)
ListFrom(s, order) ==
    IF order = <<>> THEN <<>>
    ELSE (IF s[StorageKey(Head(order))] # Absent THEN <<Head(order)>> ELSE <<>>)
         \o ListFrom(s, Tail(order))
StorageList(s) == ListFrom(s, NameOrder)

----------------------------------------------------------------------------
(* Requests and results.                                                   *)

\* the floor of line 196
MinKeyBits == 2048

NoData == [fingerprint |-> <<>>, public_key |-> EmptyText, exportable |-> FALSE,
           keys |-> <<>>]

\* what a handler returned.  kind: "nil" is (nil, nil); "response" a response 
\* with data; "errorResponse" is logical.ErrorResponse(msg); "error" a Go      
\* error; "panic" a run-time panic.  calls counts the handler's Storage calls. 
Result(kind, msg, calls, data) ==
    [kind |-> kind, msg |-> msg, calls |-> calls, data |-> data]

NoResult == Result("none", "", 0, NoData)

MsgUnsafe == "Keys < 2048 bits are unsafe and not supported"
MsgKeyRequired == "the key value is required for generated keys"
MsgNotSerialized == "the key could not be serialized, is a private key present?"
MsgStorage == "storage error"
MsgIndex == "index out of range [0] with length 0"

Request(op, name, real_name, email, comment, key_bits, key, exportable, generate) ==
    [name |-> name, comment |-> comment, email |-> email, exportable |-> exportable,
     op |-> op, real_name |-> real_name, key_bits |-> key_bits,
     key |-> key, generate |-> generate]

\* a request that carries only a name (read, delete) or nothing (list)
NameRequest(op, name) == Request(op, name, <<>>, <<>>, <<>>, MinKeyBits, EmptyText, FALSE, TRUE)

\* the orders in which the identities of the entity a create serializes may   
\* be ranged over (e.Identities is a Go map)                                   
RingOrders(ring) ==
    IF ring.el = <<>> THEN {<<>>} ELSE Orders(DOMAIN ring.el[1].Identities)

CreateOrders(r) ==
    IF r.generate
    THEN {<<GenUserId(r.real_name, r.comment, r.email)>>}
    ELSE RingOrders(ReadArmoredKeyRing(r.key))

\* a handler that has returned before the storage call, with its result
Returned(kind, msg, b) ==
    [resp |-> Result(kind, msg, 0, NoData), buf |-> b, entry |-> <<>>, done |-> TRUE]

\* lines 224-227: the storage entry of the serialized key
Built(r, b) ==
    [resp |-> NoResult, buf |-> b,
     entry |-> StorageEntryJSON(StorageKey(r.name), keyEntry(b, r.exportable)),
     done |-> FALSE]

\* lines 203-209: the generated entity g is serialized unless NewEntity failed
BuildGenerated(r, order, g) ==
    IF g.err # "" THEN Returned("error", g.err, <<>>) ELSE Built(r, SerializePrivate(g.e, order))

\* variant: the error of serializePrivateWithoutSigning is dropped
BuildSerializedUnchecked(r, w) == Built(r, w.buf)

\* lines 219-221: w is what serializePrivateWithoutSigning wrote and returned
BuildSerialized(r, w) ==
    IF w.err # "" THEN Returned("errorResponse", MsgNotSerialized, w.buf)
    ELSE Built(r, w.buf)

\* lines 215-218: ring is what ReadArmoredKeyRing returned; el[0] panics on an
\* empty list                                                                 
BuildImported(r, order, ring) ==
    IF ring.err # "" THEN Returned("errorResponse", ring.err, <<>>)
    ELSE IF ring.el = <<>> THEN Returned("panic", MsgIndex, <<>>)
    ELSE BuildSerialized(r, serializePrivateWithoutSigning(ring.el[1], order))

\* variant: the size check rejects the floor itself
BuildEntryOffByOne(r, order, k) ==
    IF r.generate
    THEN IF r.key_bits <= MinKeyBits
         THEN Returned("errorResponse", MsgUnsafe, <<>>)
         ELSE BuildGenerated(r, order, NewEntity(r.real_name, r.comment, r.email, k))
    ELSE IF r.key = EmptyText
         THEN Returned("errorResponse", MsgKeyRequired, <<>>)
         ELSE BuildImported(r, order, ReadArmoredKeyRing(r.key))

\* variant: an import does not check that a key was given
BuildEntryNoKeyCheck(r, order, k) ==
    IF r.generate
    THEN IF r.key_bits < MinKeyBits
         THEN Returned("errorResponse", MsgUnsafe, <<>>)
         ELSE BuildGenerated(r, order, NewEntity(r.real_name, r.comment, r.email, k))
    ELSE BuildImported(r, order, ReadArmoredKeyRing(r.key))

\* pathKeyCreate up to the storage call (lines 184-230): either the handler  
\* has returned (done, with its result) or the storage entry is built.        
\* order: the iteration order of the identities; k: the generated key.        
BuildEntry(r, order, k) ==
    IF r.generate
    THEN IF r.key_bits < MinKeyBits
         THEN Returned("errorResponse", MsgUnsafe, <<>>)
         ELSE BuildGenerated(r, order, NewEntity(r.real_name, r.comment, r.email, k))
    ELSE IF r.key = EmptyText
         THEN Returned("errorResponse", MsgKeyRequired, <<>>)
         ELSE BuildImported(r, order, ReadArmoredKeyRing(r.key))

\* lines 231-234: the storage call of pathKeyCreate, after BuildEntry gave b
PutEntry(s, b, fault) ==
    IF b.done THEN [store |-> s, resp |-> b.resp, buf |-> b.buf]
    ELSE IF fault
    THEN [store |-> s, resp |-> Result("error", MsgStorage, 1, NoData), buf |-> b.buf]
    ELSE [store |-> StoragePut(s, b.entry), resp |-> Result("nil", "", 1, NoData),
          buf |-> b.buf]

\* pathKeyCreate (lines 183-235) on storage s: its result and the storage after
CreateResult(s, r, order, k, fault) == PutEntry(s, BuildEntry(r, order, k), fault)

\* b.key (lines 85-100): the decoded entry under a name, nil when absent
key(s, name) ==
    IF StorageGet(s, StorageKey(name)) = Absent THEN Absent
    ELSE DecodeJSON(StorageGet(s, StorageKey(name)))

\* lines 105-109: el[0] of what ReadKeyRing returned
FirstOf(ring) ==
    IF ring.err # "" THEN [e |-> <<>>, err |-> ring.err, kind |-> "error"]
    ELSE IF ring.el = <<>> THEN [e |-> <<>>, err |-> MsgIndex, kind |-> "panic"]
    ELSE [e |-> ring.el[1], err |-> "", kind |-> "ok"]

\* b.entity (lines 102-110): the first entity of the stored key ring
entity(entry) == FirstOf(ReadKeyRing(entry.SerializedKey))

\* hex.EncodeToString(entity.PrimaryKey.Fingerprint[:])
Fingerprint(e) == <<"hex", e.PrimaryKey>>

\* the orders in which a read may range over the identities of the stored entity
EntityOrders(en) == IF en.kind # "ok" THEN {<<>>} ELSE Orders(DOMAIN en.e.Identities)
EntryOrders(entry) == IF entry = Absent THEN {<<>>} ELSE EntityOrders(entity(entry))
ReadOrders(s, name) == EntryOrders(key(s, name))

\* lines 161-180: the response for entity en of the stored entry
ReadEntityResult(entry, en, order) ==
    IF en.kind # "ok" THEN Result(en.kind, en.err, 1, NoData)
    ELSE Result("response", "", 1,
                [fingerprint |-> Fingerprint(en.e),
                 public_key |-> Armor(PublicKeyType, EntitySerialize(en.e, order)),
                 exportable |-> entry.Exportable,
                 keys |-> <<>>])

\* lines 158-161: nothing is returned for a name that has no entry
ReadEntryResult(entry, order) ==
    IF entry = Absent THEN Result("nil", "", 1, NoData)
    ELSE ReadEntityResult(entry, entity(entry), order)

\* pathKeyRead (lines 153-181)
ReadResult(s, r, order, fault) ==
    IF fault THEN Result("error", MsgStorage, 1, NoData)
    ELSE ReadEntryResult(key(s, r.name), order)

\* variant: deleting a name that has no entry is an error
DeleteResultStrict(s, r, fault) ==
    IF fault THEN [store |-> s, resp |-> Result("error", MsgStorage, 1, NoData)]
    ELSE IF StorageGet(s, StorageKey(r.name)) = Absent
    THEN [store |-> s, resp |-> Result("errorResponse", "no such key", 1, NoData)]
    ELSE [store |-> StorageDelete(s, StorageKey(r.name)),
          resp |-> Result("nil", "", 1, NoData)]

\* pathKeyDelete (lines 237-243)
DeleteResult(s, r, fault) ==
    IF fault THEN [store |-> s, resp |-> Result("error", MsgStorage, 1, NoData)]
    ELSE [store |-> StorageDelete(s, StorageKey(r.name)),
          resp |-> Result("nil", "", 1, NoData)]

\* variant: the listing stops after the first name
FirstName(names) == IF names = <<>> THEN <<>> ELSE <<Head(names)>>

ListResultFirst(s, fault) ==
    IF fault THEN Result("error", MsgStorage, 1, NoData)
    ELSE Result("response", "", 1, [NoData EXCEPT !.keys = FirstName(StorageList(s))])

\* pathKeyList (lines 245-252)
ListResult(s, fault) ==
    IF fault THEN Result("error", MsgStorage, 1, NoData)
    ELSE Result("response", "", 1, [NoData EXCEPT !.keys = StorageList(s)])

----------------------------------------------------------------------------
(* The inputs the model draws from.                                        *)

\* key id of the primary key of an imported key ring, and of another signer
KeyIds == <<1, 2>>
ImportKey == KeyIds[1]
OtherKey == KeyIds[2]
\* key ids NewEntity may generate (the subkey of key k has id k + 1)
GenKeys == {50 + 10 * i : i \in 1..MaxGenKeys}

\* the packets of a key ring as a caller holds it: the primary key (public,  
\* private, or private and encrypted), each user id in `uids` with its       
\* self-signature of value sigv, then each subkey with its binding signature 
KeyPacket(id, sub, state) ==
    IF state = NoPrivateKey THEN PublicKeyPacket(id, sub) ELSE PrivateKeyOf(id, sub, state)

RECURSIVE WireIdentities(_, _, _)
WireIdentities(uids, sigv, u) ==
    IF u > MaxIdents + 1 THEN <<>>
    ELSE (IF u \in uids
          THEN <<UserIdPacket(u), SignaturePacket(sigv, "cert", ImportKey, u)>>
          ELSE <<>>)
         \o WireIdentities(uids, sigv, u + 1)

RECURSIVE WireSubkeys(_, _, _)
WireSubkeys(states, sigv, i) ==
    IF i > Len(states) THEN <<>>
    ELSE <<KeyPacket(10 + i, TRUE, states[i]),
           SignaturePacket(sigv, "binding", ImportKey, 10 + i)>>
         \o WireSubkeys(states, sigv, i + 1)

Wire(primary, uids, sigv, subkeys) ==
    <<KeyPacket(ImportKey, FALSE, primary)>> \o WireIdentities(uids, sigv, 1)
    \o WireSubkeys(subkeys, sigv, 1)

SubkeyStates == UNION {[1..n -> PrivateKeyStates] : n \in 0..MaxSubkeys}

\* every key ring within the bounds
WireRings ==
    {Wire(primary, uids, sigv, subkeys) :
        primary \in PrivateKeyStates, uids \in SUBSET (1..MaxIdents),
        sigv \in 1..MaxSig, subkeys \in SubkeyStates}

\* a key ring whose first identity also carries a certification by another key
CertifiedRing ==
    <<KeyPacket(ImportKey, FALSE, ClearPrivateKey), UserIdPacket(1),
      SignaturePacket(1, "cert", ImportKey, 1), SignaturePacket(1, "cert", OtherKey, 1)>>

\* a key ring of two entities
TwoEntityRing ==
    Wire(NoPrivateKey, {1}, 1, <<>>) \o <<PublicKeyPacket(OtherKey, FALSE), UserIdPacket(1),
                                          SignaturePacket(1, "cert", OtherKey, 1)>>

\* the key texts a caller may send to an import
ImportTexts ==
    {EmptyText, GarbageText, Armor("PGP MESSAGE", <<UserIdPacket(1)>>),
     Armor(PrivateKeyType, <<>>), Armor(PrivateKeyType, <<UserIdPacket(1)>>),
     Armor(PrivateKeyType, CertifiedRing), Armor(PublicKeyType, TwoEntityRing)}
    \cup {Armor(PrivateKeyType, ring) : ring \in WireRings}

\* the key texts of the service specification: one of each kind
FullRing == Wire(ClearPrivateKey, {1}, 1, <<ClearPrivateKey>>)
PublicRing == Wire(NoPrivateKey, {1}, 1, <<NoPrivateKey>>)
SubkeyOnlyRing == Wire(NoPrivateKey, {1}, 1, <<ClearPrivateKey>>)
EncryptedRing == Wire(EncryptedPrivateKey, {1}, 1, <<>>)
EncryptedSubkeyRing == Wire(ClearPrivateKey, {1}, 1, <<EncryptedPrivateKey>>)

ServiceTexts ==
    {EmptyText, GarbageText, Armor(PrivateKeyType, <<>>), Armor(PrivateKeyType, FullRing),
     Armor(PublicKeyType, PublicRing), Armor(PrivateKeyType, SubkeyOnlyRing),
     Armor(PrivateKeyType, EncryptedRing), Armor(PrivateKeyType, EncryptedSubkeyRing)}

KeyBitsValues == {-1, 0, MinKeyBits - 1, MinKeyBits, 2 * MinKeyBits}

RealNames == {<<"a">>, <<"a", "(">>}
Comments == {<<>>, <<"<">>}
Emails == {<<>>, <<"b", ">">>}

\* the create requests of the service specification
GenerateRequests ==
    {Request("create", n, <<"a">>, <<>>, <<>>, bits, EmptyText, x, TRUE) :
        n \in Names, bits \in KeyBitsValues, x \in BOOLEAN}
    \cup {Request("create", n, rn, em, co, bits, k, x, TRUE) :
            n \in {"a"}, rn \in RealNames, em \in Emails, co \in Comments,
            bits \in {MinKeyBits - 1, MinKeyBits},
            k \in {Armor(PrivateKeyType, FullRing)}, x \in {TRUE}}

ImportRequests ==
    {Request("create", n, <<"a">>, <<>>, <<>>, MinKeyBits, k, x, FALSE) :
        n \in Names, k \in ServiceTexts, x \in BOOLEAN}
    \cup {Request("create", n, <<"a", "(">>, <<>>, <<"<">>, 0, k, x, FALSE) :
            n \in Names, k \in {EmptyText, Armor(PrivateKeyType, FullRing)}, x \in BOOLEAN}

----------------------------------------------------------------------------
(* The service: one request after the other.                               *)

EmptyStore == [k \in StorageKeys |-> Absent]

\* a request slot: pc is "idle", "call" (the handler stands before its storage 
\* call) or "done" (it has returned); entry is the storage entry a create     
\* built, seen what a read got from storage, calls the storage calls made.    
Procs == 1..MaxProcs

IdleProc ==
    [kind |-> "none", name |-> "a", entry |-> <<>>, calls |-> 0, op |-> "none",
     pc |-> "idle", seen |-> Absent]

IdleProcs == [p \in Procs |-> IdleProc]

Init ==
    /\ store = EmptyStore
    /\ req = NameRequest("none", "a")
    /\ resp = NoResult
    /\ buf = <<>>
    /\ had = FALSE
    /\ live = {}
    /\ procs = IdleProcs
    /\ built = {}

\* pathKeyCreate handles request r
pathKeyCreate(r, order, k, fault) ==
    \E out \in {CreateResult(store, r, order, k, fault)} :
        /\ req' = r
        /\ resp' = out.resp
        /\ buf' = out.buf
        /\ store' = out.store
        /\ had' = (store[StorageKey(r.name)] # Absent)
        /\ live' = IF out.resp.kind = "nil" THEN live \cup {r.name} ELSE live
        /\ UNCHANGED <<procs, built>>

\* pathKeyRead handles request r
pathKeyRead(r, order, fault) ==
    /\ req' = r
    /\ resp' = ReadResult(store, r, order, fault)
    /\ buf' = <<>>
    /\ had' = (store[StorageKey(r.name)] # Absent)
    /\ UNCHANGED <<store, live, procs, built>>

\* pathKeyDelete handles request r
pathKeyDelete(r, fault) ==
    \E out \in {DeleteResult(store, r, fault)} :
        /\ req' = r
        /\ resp' = out.resp
        /\ buf' = <<>>
        /\ store' = out.store
        /\ had' = (store[StorageKey(r.name)] # Absent)
        /\ live' = IF out.resp.kind = "nil" THEN live \ {r.name} ELSE live
        /\ UNCHANGED <<procs, built>>

\* pathKeyList handles a list request
pathKeyList(fault) ==
    /\ req' = NameRequest("list", "a")
    /\ resp' = ListResult(store, fault)
    /\ buf' = <<>>
    /\ had' = FALSE
    /\ UNCHANGED <<store, live, procs, built>>

\* a create that generates a key pair: k is the key the generator draws
Generate ==
    \E r \in GenerateRequests, k \in GenKeys, fault \in BOOLEAN :
        \E order \in CreateOrders(r) : pathKeyCreate(r, order, k, fault)

\* a create that imports the key ring of the request: no key is generated
ImportRing ==
    \E r \in ImportRequests, fault \in BOOLEAN :
        \E order \in CreateOrders(r) : pathKeyCreate(r, order, 0, fault)

Read ==
    \E n \in Names, fault \in BOOLEAN :
        \E order \in ReadOrders(store, n) : pathKeyRead(NameRequest("read", n), order, fault)

Delete ==
    \E n \in Names, fault \in BOOLEAN : pathKeyDelete(NameRequest("delete", n), fault)

List == \E fault \in BOOLEAN : pathKeyList(fault)

Next == Generate \/ ImportRing \/ Read \/ Delete \/ List

Spec == Init /\ [][Next]_vars

----------------------------------------------------------------------------
(* One import, then reads of what it stored: every key text within the     *)
(* bounds is sent once to an empty store.                                  *)

InitImport ==
    /\ store = EmptyStore
    /\ req \in {Request("create", "a", <<"a">>, <<>>, <<>>, MinKeyBits, text, x, FALSE) :
                   text \in ImportTexts, x \in BOOLEAN}
    /\ resp = NoResult
    /\ buf = <<>>
    /\ had = FALSE
    /\ live = {}
    /\ procs = IdleProcs
    /\ built = {}

\* the import request is handled
Import ==
    /\ req.op = "create" /\ resp = NoResult
    /\ \E fault \in BOOLEAN :
           \E order \in CreateOrders(req) : pathKeyCreate(req, order, 0, fault)

\* a read of the imported name, with no create or delete in between
ReadBack ==
    /\ resp # NoResult
    /\ \E fault \in BOOLEAN :
           \E order \in ReadOrders(store, "a") :
               pathKeyRead(NameRequest("read", "a"), order, fault)

NextImport == Import \/ ReadBack

SpecImport == InitImport /\ [][NextImport]_vars

----------------------------------------------------------------------------
(* Concurrent requests: the handlers of MaxProcs requests interleave.  A     *)
(* handler takes no lock; what it does before and after its one call to the *)
(* storage collaborator is local to it, and the call itself is atomic.      *)

\* the create requests that race: an import and a generation, and an import  
\* without a key                                                             
RacingRequests ==
    {Request("create", "a", <<"a">>, <<>>, <<>>, MinKeyBits,
             Armor(PrivateKeyType, FullRing), TRUE, FALSE),
     Request("create", "a", <<"a">>, <<>>, <<>>, MinKeyBits, EmptyText, FALSE, TRUE),
     Request("create", "a", <<"a">>, <<>>, <<>>, MinKeyBits, EmptyText, FALSE, FALSE)}

\* lines 184-230 of a create that began in slot p: b is what BuildEntry gave
Began(p, r, b) ==
    /\ procs' = [procs EXCEPT ![p] =
                    [kind |-> b.resp.kind, name |-> r.name, entry |-> b.entry,
                     calls |-> 0, op |-> "create",
                     pc |-> IF b.done THEN "done" ELSE "call", seen |-> Absent]]
    /\ built' = IF b.done THEN built ELSE built \cup {b.entry}
    /\ UNCHANGED <<store, req, resp, buf, had, live>>

\* pathKeyCreate begins in slot p and runs up to Storage.Put
BeginCreate(p, r, order, k) ==
    /\ procs[p].pc = "idle"
    /\ Began(p, r, BuildEntry(r, order, k))

\* pathKeyDelete, pathKeyRead or pathKeyList begins in slot p
BeginOther(p, op, n) ==
    /\ procs[p].pc = "idle"
    /\ procs' = [procs EXCEPT ![p] = [IdleProc EXCEPT !.pc = "call", !.op = op, !.name = n]]
    /\ UNCHANGED <<store, req, resp, buf, had, live, built>>

\* variant: a create that finds a record replaces its serialized key only
StorageAfterFieldwise(s, pr) ==
    IF pr.op = "create"
    THEN IF s[pr.entry.Key] = Absent THEN StoragePut(s, pr.entry)
         ELSE [s EXCEPT ![pr.entry.Key].json.SerializedKey =
                            pr.entry.Value.json.SerializedKey]
    ELSE IF pr.op = "delete" THEN StorageDelete(s, StorageKey(pr.name))
    ELSE s

\* the storage after the call of the handler in slot pr
StorageAfter(s, pr) ==
    IF pr.op = "create" THEN StoragePut(s, pr.entry)
    ELSE IF pr.op = "delete" THEN StorageDelete(s, StorageKey(pr.name))
    ELSE s

\* the one storage call of the handler in slot p: Put (line 231), Delete (line
\* 238), Get (line 86) or List (line 247); the handler then returns           
StorageCall(p, fault) ==
    /\ procs[p].pc = "call"
    /\ store' = IF fault THEN store ELSE StorageAfter(store, procs[p])
    /\ procs' = [procs EXCEPT ![p].pc = "done", ![p].calls = @ + 1,
                              ![p].kind = IF fault THEN "error" ELSE "nil",
                              ![p].seen = IF procs[p].op = "read" /\ ~fault
                                          THEN key(store, procs[p].name) ELSE Absent]
    /\ UNCHANGED <<req, resp, buf, had, live, built>>

\* the caller has its answer; the slot takes the next request
Finish(p) ==
    /\ procs[p].pc = "done"
    /\ procs' = [procs EXCEPT ![p] = IdleProc]
    /\ UNCHANGED <<store, req, resp, buf, had, live, built>>

NextConc ==
    \/ \E p \in Procs, r \in RacingRequests, k \in GenKeys :
           \E order \in CreateOrders(r) : BeginCreate(p, r, order, k)
    \/ \E p \in Procs, op \in {"delete", "read", "list"} : BeginOther(p, op, "a")
    \/ \E p \in Procs, fault \in BOOLEAN : StorageCall(p, fault)
    \/ \E p \in Procs : Finish(p)

SpecConc == Init /\ [][NextConc]_vars

----------------------------------------------------------------------------
(* Properties of the service (specification Spec).                         *)

\* the complete serialization of entity e: every packet the serializer is to 
\* write, none left out                                                      
CompleteSerialization(e, order) ==
    PrimaryPackets(e) \o IdentityPackets(e, order) \o SubkeyPackets(e.Subkeys)

CompleteOfRing(ring) ==
    IF ring.err # "" \/ ring.el = <<>> THEN {}
    ELSE {CompleteSerialization(ring.el[1], order) :
              order \in Orders(DOMAIN ring.el[1].Identities)}

CompleteOfGenerated(g) ==
    IF g.err # "" THEN {}
    ELSE {SerializePrivate(g.e, order) : order \in Orders(DOMAIN g.e.Identities)}

\* the serialized keys a successful create for request r may store
CompleteFor(r) ==
    IF r.generate
    THEN UNION {CompleteOfGenerated(NewEntity(r.real_name, r.comment, r.email, k)) :
                    k \in GenKeys}
    ELSE CompleteOfRing(ReadArmoredKeyRing(r.key))

AllCompleteKeys == UNION {CompleteFor(r) : r \in GenerateRequests \cup ImportRequests}

Failed(r) == r.kind \in {"errorResponse", "error", "panic"}

C1_NoPartialRecord ==
    \A sk \in StorageKeys :
        \/ store[sk] = Absent
        \/ /\ DOMAIN store[sk] = {"json"}
           /\ DOMAIN store[sk].json = {"SerializedKey", "Exportable"}
           /\ store[sk].json.SerializedKey \in AllCompleteKeys
           /\ store[sk].json.Exportable \in BOOLEAN

C1_CreateStep ==
    req'.op = "create" =>
        \/ /\ resp'.kind = "nil"
           /\ buf' \in CompleteFor(req')
           /\ store' = [store EXCEPT ![StorageKey(req'.name)] =
                            [json |-> [SerializedKey |-> buf',
                                       Exportable |-> req'.exportable]]]
        \/ /\ Failed(resp')
           /\ store' = store

C2_ListReflectsStore ==
    (req.op = "list" /\ resp.kind = "response") =>
        {resp.data.keys[i] : i \in 1..Len(resp.data.keys)} = live

\* "a" and "b" were created and "a" was deleted: the list is exactly "b"
C2_Witness ==
    /\ req.op = "list" /\ resp.kind = "response"
    /\ resp.data.keys = <<"b">> /\ live = {"b"}

ValidIdentity(r) ==
    ~(HasForbidden(r.real_name) \/ HasForbidden(r.comment) \/ HasForbidden(r.email))

C3_Rejected ==
    /\ resp' = Result("errorResponse", MsgUnsafe, 0, NoData)
    /\ store' = store

C3_Stored ==
    /\ resp'.kind = "nil"
    /\ store'[StorageKey(req'.name)] # Absent
    /\ store'[StorageKey(req'.name)].json.Exportable = req'.exportable

\* C3 as claimed: generating with key_bits < 2048 is rejected with the        
\* undersized-key error response whatever the other fields are, and generating 
\* with key_bits >= 2048 is not rejected and results in a stored record (a     
\* failure of the storage collaborator set aside).                            
C3_SizeFloorAsClaimed ==
    [][(req'.op = "create" /\ req'.generate /\ resp'.msg # MsgStorage) =>
           IF req'.key_bits < MinKeyBits THEN C3_Rejected ELSE C3_Stored]_vars

\* C3 (amended): generating with key_bits < 2048 is rejected with the         
\* undersized-key error response whatever the other fields are; generating    
\* with key_bits >= 2048 is never rejected by the size check, and results in a
\* stored record unless NewEntity refuses the identity fields (a forbidden    
\* character) or the storage write fails: then an error is returned and the   
\* store is unchanged.                                                        
C3_SizeFloor ==
    [][(req'.op = "create" /\ req'.generate) =>
           IF req'.key_bits < MinKeyBits THEN C3_Rejected
           ELSE /\ resp'.msg # MsgUnsafe
                /\ IF ValidIdentity(req') /\ resp'.msg # MsgStorage
                   THEN C3_Stored
                   ELSE resp'.kind = "error" /\ store' = store]_vars

\* a key of exactly 2048 bits was generated and stored
C3_Witness ==
    /\ req.op = "create" /\ req.generate /\ req.key_bits = MinKeyBits
    /\ resp.kind = "nil" /\ store[StorageKey(req.name)] # Absent

\* C4: an import (generate=false) with an empty key fails with the missing-key 
\* error response and makes no storage call, whatever the name, key_bits,      
\* exportable and identity fields are and whether or not the name has a record.
C4_MissingKey ==
    [][(req'.op = "create" /\ ~req'.generate /\ req'.key = EmptyText) =>
           /\ resp' = Result("errorResponse", MsgKeyRequired, 0, NoData)
           /\ store' = store]_vars

\* an import with an empty key, other fields not the defaults, on a name that 
\* holds a record                                                             
C4_Witness ==
    /\ req.op = "create" /\ ~req.generate /\ req.key = EmptyText
    /\ req.key_bits = 0 /\ req.exportable /\ had
    /\ resp.kind = "errorResponse"

C6_TwiceIsOnce ==
    \A n \in Names :
        DeleteResult(DeleteResult(store, NameRequest("delete", n), FALSE).store,
                     NameRequest("delete", n), FALSE).store
            = DeleteResult(store, NameRequest("delete", n), FALSE).store

C6_DeleteStep ==
    (req'.op = "delete" /\ resp'.msg # MsgStorage) =>
        /\ resp' = Result("nil", "", 1, NoData)
        /\ store'[StorageKey(req'.name)] = Absent
        /\ \A sk \in StorageKeys \ {StorageKey(req'.name)} : store'[sk] = store[sk]
        /\ (store[StorageKey(req'.name)] = Absent => store' = store)

\* C6: delete is idempotent.  A delete of a name with no record succeeds      
\* without error and leaves the whole store unchanged (a failure of the       
\* storage collaborator set aside), and two deletes of a name leave the store 
\* as one does.                                                               
C6_IdempotentDelete == [] C6_TwiceIsOnce /\ [][C6_DeleteStep]_vars

\* a delete of a name that had no record, after that name was deleted
C6_Witness ==
    /\ req.op = "delete" /\ resp.kind = "nil" /\ ~had
    /\ live # {} /\ req.name \notin live

----------------------------------------------------------------------------
(* Properties of an import (specification SpecImport).                     *)

\* the state after an import whose key text parsed to at least one entity
Imported ==
    /\ req.op = "create" /\ ~req.generate /\ resp # NoResult
    /\ ReadArmoredKeyRing(req.key).err = ""
    /\ ReadArmoredKeyRing(req.key).el # <<>>

\* the entity the import serialized
ImportedEntity == ReadArmoredKeyRing(req.key).el[1]

\* the primary key or some subkey of e carries private material
CarriesPrivateMaterial(e) ==
    \/ e.PrivateKey # NoPrivateKey
    \/ \E i \in 1..Len(e.Subkeys) : e.Subkeys[i].PrivateKey # NoPrivateKey

\* some private key of e is still passphrase-encrypted
HasEncryptedKey(e) ==
    \/ e.PrivateKey = EncryptedPrivateKey
    \/ \E i \in 1..Len(e.Subkeys) : e.Subkeys[i].PrivateKey = EncryptedPrivateKey

RejectedNotSerialized == resp = Result("errorResponse", MsgNotSerialized, 0, NoData)

\* C5 as claimed: an import is rejected with the no-private-key error response
\* exactly when neither the primary key nor any subkey of the parsed entity   
\* carries private material.                                                  
C5_NoPrivateKeyAsClaimed ==
    Imported => (RejectedNotSerialized <=> ~CarriesPrivateMaterial(ImportedEntity))

\* C5 (amended): an import whose entity carries no private material is        
\* rejected with the no-private-key error response; one whose entity carries  
\* private material is rejected with that response only when a private key of 
\* it is still passphrase-encrypted, so that its Serialize call fails, and is 
\* otherwise stored (or fails on the storage write).                          
C5_NoPrivateKey ==
    Imported =>
        /\ RejectedNotSerialized <=>
               (~CarriesPrivateMaterial(ImportedEntity) \/ HasEncryptedKey(ImportedEntity))
        /\ ~RejectedNotSerialized =>
               \/ resp.kind = "nil" /\ store[StorageKey(req.name)] # Absent
               \/ resp.kind = "error" /\ resp.msg = MsgStorage

\* a key ring of public parts only was sent, written to the buffer and rejected
C5_Witness ==
    /\ Imported /\ RejectedNotSerialized /\ buf # <<>>
    /\ ~CarriesPrivateMaterial(ImportedEntity)
    /\ Len(ImportedEntity.Subkeys) > 0

\* C7: an import never ends in a fault, whatever the key text: it ends with a 
\* stored record or with a descriptive error response (a failure of the       
\* storage collaborator set aside).                                           
C7_NoFault ==
    (req.op = "create" /\ ~req.generate /\ resp # NoResult /\ resp.msg # MsgStorage) =>
        \/ resp.kind = "nil" /\ store[StorageKey(req.name)] # Absent
        \/ resp.kind = "errorResponse" /\ resp.msg # ""

\* the packets the claim lists for entity e, identities ranged over in `order`
RECURSIVE C8_Identities(_, _)
C8_Identities(e, order) ==
    IF order = <<>> THEN <<>>
    ELSE <<UserIdPacket(Head(order)), e.Identities[Head(order)].SelfSignature>>
         \o C8_Identities(e, Tail(order))

RECURSIVE C8_Subkeys(_, _)
C8_Subkeys(e, i) ==
    IF i > Len(e.Subkeys) THEN <<>>
    ELSE (IF e.Subkeys[i].PrivateKey = NoPrivateKey THEN <<>>
          ELSE <<PrivateKeyPacket(e.Subkeys[i].PublicKey, TRUE,
                                  e.Subkeys[i].PrivateKey = EncryptedPrivateKey)>>)
         \o <<e.Subkeys[i].Sig>> \o C8_Subkeys(e, i + 1)

C8_Expected(e, order) ==
    (IF e.PrivateKey = NoPrivateKey THEN <<>>
     ELSE <<PrivateKeyPacket(e.PrimaryKey, FALSE, e.PrivateKey = EncryptedPrivateKey)>>)
    \o C8_Identities(e, order) \o C8_Subkeys(e, 1)

\* ps up to the first private key packet that cannot be serialized
C8_Written(ps) ==
    IF \E i \in 1..Len(ps) : ps[i].tag = "PrivateKey" /\ ps[i].enc
    THEN SubSeq(ps, 1, (CHOOSE i \in 1..Len(ps) :
                           /\ ps[i].tag = "PrivateKey" /\ ps[i].enc
                           /\ \A j \in 1..(i - 1) : ~(ps[j].tag = "PrivateKey" /\ ps[j].enc)) - 1)
    ELSE ps

C8_Signatures(ps) == SelectSeq(ps, LAMBDA p : p.tag = "Signature")

\* the user ids of entity e in the order in which the key text ps has them
RECURSIVE C8_InputOrder(_, _, _)
C8_InputOrder(e, ps, seen) ==
    IF ps = <<>> THEN <<>>
    ELSE IF /\ Head(ps).tag = "UserId"
            /\ Head(ps).id \in DOMAIN e.Identities
            /\ Head(ps).id \notin seen
         THEN <<Head(ps).id>> \o C8_InputOrder(e, Tail(ps), seen \cup {Head(ps).id})
         ELSE C8_InputOrder(e, Tail(ps), seen)

\* C8 as claimed: for every entity the import writes the primary private key 
\* if present, then each identity's user id followed at once by its           
\* self-signature, then each subkey's private key if present followed at once 
\* by its binding signature, the signatures in the order of the input.        
C8_FixedOrderAsClaimed ==
    Imported =>
        buf = C8_Expected(ImportedEntity, C8_InputOrder(ImportedEntity, req.key.body, {}))

\* C8 (amended): the import writes, in this order, the primary private key if 
\* present, each identity's user id followed at once by its self-signature,   
\* and each subkey's private key if present followed at once by its binding   
\* signature; the identities come in the order in which the map is ranged     
\* over, which is not fixed, and the writing stops at a private key that      
\* cannot be serialized.  Every signature written is a signature packet of    
\* the input, none is made anew, and when nothing fails each self-signature   
\* and each binding signature of the entity is written exactly once.          
C8_FixedOrderNoResigning ==
    Imported =>
        /\ \E order \in Orders(DOMAIN ImportedEntity.Identities) :
               buf = C8_Written(C8_Expected(ImportedEntity, order))
        /\ \A i \in 1..Len(buf) :
               buf[i].tag = "Signature" =>
                   \E j \in 1..Len(req.key.body) : req.key.body[j] = buf[i]
        /\ ~HasEncryptedKey(ImportedEntity) =>
               \E order \in Orders(DOMAIN ImportedEntity.Identities) :
                   C8_Signatures(buf) = C8_Signatures(C8_Expected(ImportedEntity, order))

\* two identities written second one first, then a subkey without and a subkey
\* with private material, and the result stored                               
C8_Witness ==
    /\ Imported /\ resp.kind = "nil" /\ Len(buf) = 8
    /\ buf[1].tag = "PrivateKey" /\ buf[2] = UserIdPacket(2) /\ buf[4] = UserIdPacket(1)
    /\ buf[6].tag = "Signature" /\ buf[7].tag = "PrivateKey" /\ buf[8].tag = "Signature"
    /\ store[StorageKey(req.name)].json.SerializedKey = buf

\* C9: every record stored by a successful import can be read back: a read of 
\* the name returns {fingerprint, public_key, exportable} and not an error (a 
\* failure of the storage collaborator set aside).                            
C9_ReadBack ==
    (req.op = "read" /\ store[StorageKey(req.name)] # Absent /\ resp.msg # MsgStorage) =>
        /\ resp.kind = "response"
        /\ resp.data.fingerprint = <<"hex", ImportKey>>
        /\ resp.data.exportable = store[StorageKey(req.name)].json.Exportable

----------------------------------------------------------------------------
(* Properties of concurrent requests (specification SpecConc).             *)

\* the record under a storage key is one that a single create call built
BuiltByOneCreate(sk, value) == \E e \in built : e.Key = sk /\ e.Value = value

C10_NoMixedRecord ==
    \A sk \in StorageKeys :
        store[sk] = Absent \/ BuiltByOneCreate(sk, store[sk])

C10_OneCall ==
    \A p \in Procs :
        /\ procs[p].calls <= 1
        /\ (procs[p].pc = "done" /\ (procs[p].op # "create" \/ procs[p].entry # <<>>))
               => procs[p].calls = 1

C10_ReadSees ==
    \A p \in Procs :
        (procs[p].pc = "done" /\ procs[p].op = "read" /\ procs[p].seen # Absent) =>
            BuiltByOneCreate(StorageKey(procs[p].name), [json |-> procs[p].seen])

C10_LastWriteWins ==
    \A p \in Procs :
        (procs[p].pc = "call" /\ procs'[p].pc = "done" /\ procs'[p].kind = "nil") =>
            /\ procs[p].op = "create" =>
                   store' = [store EXCEPT ![procs[p].entry.Key] = procs[p].entry.Value]
            /\ procs[p].op = "delete" => store'[StorageKey(procs[p].name)] = Absent
            /\ procs[p].op \in {"read", "list"} => store' = store

====
